---- MODULE Spec2Model ----
(***************************************************************************)
(* Model of the Label component of libLabel.js: a checklist of library     *)
(* names.  The parent owns the selection (checkedInputs) and a setter      *)
(* (setCheckedInputs).  Every checkbox is an uncontrolled <input>: its     *)
(* checked flag lives in the DOM, is flipped by the browser before         *)
(* onChange fires, and is touched by the component only in the effect      *)
(* that runs after each render.                                            *)
(*                                                                         *)
(* A handler created by CustomInput closes over the checkedInputs value of *)
(* the render that created it, so the model keeps that value (props)       *)
(* apart from the parent's current value (checkedInputs).  When the parent *)
(* re-renders Label after a setter call is the parent's business, so       *)
(* Render is an action of its own.                                         *)
(***************************************************************************)
EXTENDS Integers, Sequences, FiniteSets, TLC

\* Longest selection the model lets a handler or the parent build.
MaxLen == 3

\* Longest sequence the parent passes on its own (mount, replacement).
MaxParentLen == 2

\* The three fixed lists.  Each is cut to the entry the scenarios of the
\* specification use: Gangnam (list 1), Nowon (list 2), Jongno (list 3).
libName1 == <<"Gangnam">>

libName2 == <<"Nowon">>

libName3 == <<"Jongno">>

Range(s) == {s[i] : i \in DOMAIN s}

\* ids of the <input> elements Label renders: id={v} for every v of the lists.
Rendered == Range(libName1) \cup Range(libName2) \cup Range(libName3)

\* A label that is in none of the lists.
Unlisted == "Unlisted"

AllLabels == Rendered \cup {Unlisted}

null == "null"

\* document.getElementById(id): the element, or null when no element has the id.
getElementById(id) == IF id \in Rendered THEN id ELSE null

NoneChecked == [l \in Rendered |-> FALSE]

InSeq(x, s) == \E i \in DOMAIN s : s[i] = x

Count(s, x) == Cardinality({i \in DOMAIN s : s[i] = x})

NoDup(s) == \A i, j \in DOMAIN s : s[i] = s[j] => i = j

SeqsUpTo(S, n) == UNION {[1..k -> S] : k \in 0..n}

\* TRUE iff a is b with some elements deleted (relative order kept).
RECURSIVE IsSubseqFrom(_, _, _, _)
IsSubseqFrom(a, i, b, j) ==
  IF i > Len(a) THEN TRUE
  ELSE IF j > Len(b) THEN FALSE
  ELSE IF a[i] = b[j] THEN IsSubseqFrom(a, i + 1, b, j + 1)
  ELSE IsSubseqFrom(a, i, b, j + 1)

IsSubseq(a, b) == IsSubseqFrom(a, 1, b, 1)

(***************************************************************************)
(* changeHandler(checked, id), with the checkedInputs its closure holds.   *)
(* The result records the argument of the setCheckedInputs call, the       *)
(* number of such calls, and the contents of the closed-over array after   *)
(* the handler returns.                                                    *)
(***************************************************************************)
\* Variant: inserts the id at the front on check.
changeHandlerPrepend(checked, id, closure) ==
  IF checked
  THEN [arg |-> <<id>> \o closure, calls |-> 1, closure |-> closure]
  ELSE [arg |-> SelectSeq(closure, LAMBDA el : el # id), calls |-> 1,
        closure |-> closure]

\* Variant: the filter predicate is inverted on uncheck.
changeHandlerKeep(checked, id, closure) ==
  IF checked
  THEN [arg |-> closure \o <<id>>, calls |-> 1, closure |-> closure]
  ELSE [arg |-> SelectSeq(closure, LAMBDA el : el = id), calls |-> 1,
        closure |-> closure]

\* Variant: push on the closed-over array instead of building a new one.
changeHandlerPush(checked, id, closure) ==
  IF checked
  THEN [arg |-> closure \o <<id>>, calls |-> 1, closure |-> closure \o <<id>>]
  ELSE [arg |-> SelectSeq(closure, LAMBDA el : el # id), calls |-> 1,
        closure |-> closure]

changeHandler(checked, id, closure) ==
  IF checked
  THEN [arg |-> closure \o <<id>>, calls |-> 1, closure |-> closure]
  ELSE [arg |-> SelectSeq(closure, LAMBDA el : el # id), calls |-> 1,
        closure |-> closure]

(***************************************************************************)
(* The effect of Label, run after every render: checkedInputs.map sets     *)
(* a.checked = true for a = getElementById(id), in order.  A null a makes  *)
(* the assignment throw a TypeError, which ends the map there.  The result  *)
(* also counts the setCheckedInputs calls the effect makes.                *)
(***************************************************************************)
RECURSIVE mapFrom(_, _, _)
mapFrom(ids, i, d) ==
  IF i > Len(ids) THEN [dom |-> d, fault |-> FALSE, calls |-> 0]
  ELSE LET a == getElementById(ids[i])
       IN  IF a = null THEN [dom |-> d, fault |-> TRUE, calls |-> 0]
           ELSE mapFrom(ids, i + 1, [d EXCEPT ![a] = TRUE])

\* Variant: writes the membership of every checkbox, checked or not.
useEffectBoth(ids, d) ==
  [dom |-> [l \in Rendered |-> InSeq(l, ids)], fault |-> FALSE, calls |-> 0]

useEffect(ids, d) ==
  IF Len(ids) # 0 THEN mapFrom(ids, 1, d)
  ELSE [dom |-> d, fault |-> FALSE, calls |-> 0]

VARIABLES
  checkedInputs,  \* the parent's selection: the last value given to the setter
  props,          \* the checkedInputs Label was last rendered with
  dom,            \* checked flag of every rendered checkbox
  fault,          \* the effect threw
  pending,        \* the selection was replaced since the last render
  last,           \* the last step: kind, id, checked, old, arg, calls, domBefore
  toggled,        \* checkboxes the user toggled since the last render
  order,          \* labels the user checked since the parent last set the
                  \* selection, by their latest check (history)
  firstOrder,     \* the same labels by their first check (history)
  trip            \* an on/off round trip in progress (history)

vars == <<checkedInputs, props, dom, fault, pending, last, toggled, order,
          firstOrder, trip>>

None == "none"

NoTrip == [id |-> None, before |-> <<>>, rendered |-> FALSE, done |-> FALSE]

Event(kind, id, checked, old, arg, calls, domBefore) ==
  [kind |-> kind, id |-> id, checked |-> checked, old |-> old, arg |-> arg,
   calls |-> calls, domBefore |-> domBefore]

Remove(s, x) == SelectSeq(s, LAMBDA el : el # x)

\* Label is mounted with the parent's initial selection s; the effect runs.
Mount(s) ==
  LET e == useEffect(s, NoneChecked)
  IN  /\ checkedInputs = s
      /\ props = s
      /\ dom = e.dom
      /\ fault = e.fault
      /\ pending = FALSE
      /\ last = Event("mount", None, FALSE, s, s, e.calls, NoneChecked)
      /\ toggled = {}
      /\ order = <<>>
      /\ firstOrder = <<>>
      /\ trip = NoTrip

\* The sequences the parent passes as checkedInputs: any labels, repeated
\* or not, with or without a checkbox.
ParentSeqs == SeqsUpTo(AllLabels, MaxParentLen)

Init == \E s \in ParentSeqs : Mount(s)

InitEmpty == Mount(<<>>)

InitDupFree == \E s \in ParentSeqs : NoDup(s) /\ Mount(s)

\* The user clicks checkbox l: the browser flips it, onChange calls
\* changeHandler(e.target.checked, e.target.id).
Change(l) ==
  /\ ~fault
  /\ LET checked == ~dom[l]
         r == changeHandler(checked, l, props)
     IN  /\ Len(r.arg) <= MaxLen
         /\ dom' = [dom EXCEPT ![l] = checked]
         /\ checkedInputs' = r.arg
         /\ props' = r.closure
         /\ last' = Event("change", l, checked, props, r.arg, r.calls, dom)
         /\ order' = IF checked THEN Append(Remove(order, l), l)
                     ELSE Remove(order, l)
         /\ firstOrder' = IF checked /\ ~InSeq(l, firstOrder)
                          THEN Append(firstOrder, l) ELSE firstOrder
         /\ trip' = IF checked
                    THEN IF pending THEN NoTrip
                         ELSE [id |-> l, before |-> checkedInputs,
                               rendered |-> FALSE, done |-> FALSE]
                    ELSE IF trip.id = l /\ trip.rendered /\ ~trip.done
                         THEN [trip EXCEPT !.done = TRUE]
                         ELSE NoTrip
  /\ pending' = TRUE
  /\ toggled' = toggled \cup {l}
  /\ UNCHANGED fault

\* Change(l) when Label has rendered the current selection.
ChangeRendered(l) == ~pending /\ Change(l)

\* Label re-renders with the parent's current selection; the effect runs.
Render ==
  /\ ~fault
  /\ LET e == useEffect(checkedInputs, dom)
     IN  /\ dom' = e.dom
         /\ fault' = e.fault
         /\ last' = Event("render", None, FALSE, checkedInputs, checkedInputs,
                          e.calls, dom)
  /\ props' = checkedInputs
  /\ pending' = FALSE
  /\ toggled' = {}
  /\ trip' = IF trip.id # None /\ ~trip.done
             THEN [trip EXCEPT !.rendered = TRUE] ELSE NoTrip
  /\ UNCHANGED <<checkedInputs, order, firstOrder>>

\* The parent replaces the selection on its own (a reset, a restored search).
ParentReplace(s) ==
  /\ ~fault
  /\ s # checkedInputs
  /\ checkedInputs' = s
  /\ pending' = TRUE
  /\ last' = Event("replace", None, FALSE, s, s, 0, dom)
  /\ toggled' = {}
  /\ trip' = NoTrip
  /\ order' = <<>>
  /\ firstOrder' = <<>>
  /\ UNCHANGED <<props, dom, fault>>

Next ==
  \/ \E l \in Rendered : Change(l)
  \/ Render
  \/ \E s \in ParentSeqs : ParentReplace(s)

Spec == Init /\ [][Next]_vars

\* Toggles only, from an empty selection, each rendered before the next.
NextToggle ==
  \/ \E l \in Rendered : ChangeRendered(l)
  \/ Render

SpecToggle == InitEmpty /\ [][NextToggle]_vars

\* Change events and renders in any order, from a duplicate-free selection.
NextChange ==
  \/ \E l \in Rendered : Change(l)
  \/ Render

SpecChange == InitDupFree /\ [][NextChange]_vars

TypeOK ==
  /\ checkedInputs \in SeqsUpTo(AllLabels, MaxLen)
  /\ props \in SeqsUpTo(AllLabels, MaxLen)
  /\ dom \in [Rendered -> BOOLEAN]
  /\ fault \in BOOLEAN
  /\ pending \in BOOLEAN
  /\ toggled \subseteq Rendered

Rendering == last.kind \in {"mount", "render"}

CheckedNow == SelectSeq(firstOrder, LAMBDA l : dom[l])

\* C1 (as stated): after toggles from an empty selection, each rendered
\* before the next, the selection holds exactly the checked labels, once
\* each, ordered by the first time each was checked.
C1_FirstCheckOrder ==
  /\ NoDup(checkedInputs)
  /\ \A l \in Rendered : dom[l] <=> InSeq(l, checkedInputs)
  /\ checkedInputs = CheckedNow

\* C1 (amended): the same, ordered by the latest check of each label: a
\* label unchecked and checked again moves to the end.
C1_LatestCheckOrder ==
  /\ NoDup(checkedInputs)
  /\ \A l \in Rendered : dom[l] <=> InSeq(l, checkedInputs)
  /\ checkedInputs = order

C1_Rechecked ==
  /\ ~pending
  /\ Len(checkedInputs) >= 2
  /\ checkedInputs # CheckedNow

\* C2: after every render whose effect ran to its end, a rendered checkbox
\* is checked exactly when its label is in checkedInputs.
C2_RenderShowsSelection ==
  (Rendering /\ ~fault) =>
    \A l \in Rendered : dom[l] <=> InSeq(l, props)

\* C3: when checkedInputs holds a label without a checkbox, the effect ends
\* without a fault and every other label of checkedInputs is checked.
C3_ResyncSkipsMissing ==
  (Rendering /\ InSeq(Unlisted, props)) =>
    /\ ~fault
    /\ \A l \in Rendered : InSeq(l, props) => dom[l]

\* C4: from a duplicate-free selection, no sequence of change events puts
\* a label into the selection twice.
C4_NoDuplicates == NoDup(checkedInputs)

\* C5: checking L on a rendered selection S, a render, then unchecking L
\* gives S again.
C5_RoundTrip == trip.done => checkedInputs = trip.before

C5_TripDone == trip.done /\ Len(trip.before) >= 1

\* C6: the selection reflects every change event since the last render:
\* a toggled checkbox is checked exactly when its label is selected.
C6_NoToggleLost ==
  \A l \in toggled : dom[l] <=> InSeq(l, checkedInputs)

\* C7: a change event calls setCheckedInputs once and leaves the contents
\* of the checkedInputs array it was given as they were.
C7_NoInPlaceMutation ==
  last.kind = "change" => (last.calls = 1 /\ props = last.old)

C7_Checked == last.kind = "change" /\ last.checked /\ Len(last.old) >= 1

\* C8: on check, the sequence given to setCheckedInputs is one longer than
\* the old one, ends with the label, and starts with the old elements.
C8_CheckAppends ==
  (last.kind = "change" /\ last.checked) =>
    /\ checkedInputs = last.arg
    /\ Len(last.arg) = Len(last.old) + 1
    /\ last.arg[Len(last.arg)] = last.id
    /\ \A i \in 1..Len(last.old) : last.arg[i] = last.old[i]

C8_CheckedOnTwo ==
  last.kind = "change" /\ last.checked /\ Len(last.old) >= 2

\* C9: on uncheck, the sequence given to setCheckedInputs has no occurrence
\* of the label and keeps every other element, its multiplicity and order.
C9_UncheckRemovesAll ==
  (last.kind = "change" /\ ~last.checked) =>
    /\ checkedInputs = last.arg
    /\ ~InSeq(last.id, last.arg)
    /\ \A x \in AllLabels \ {last.id} : Count(last.arg, x) = Count(last.old, x)
    /\ IsSubseq(last.arg, last.old)

C9_UncheckedTwice ==
  /\ last.kind = "change" /\ ~last.checked
  /\ Count(last.old, last.id) >= 2
  /\ Len(last.arg) >= 1

\* C10: the effect never calls setCheckedInputs, never unchecks a checkbox,
\* leaves alone every checkbox whose label is not in checkedInputs, and
\* changes nothing when checkedInputs is empty.
C10_ResyncOnlyChecks ==
  Rendering =>
    /\ last.calls = 0
    /\ checkedInputs = last.arg
    /\ \A l \in Rendered : last.domBefore[l] => dom[l]
    /\ \A l \in Rendered : ~InSeq(l, props) => dom[l] = last.domBefore[l]
    /\ (props = <<>> => dom = last.domBefore)

C10_StaysChecked ==
  /\ last.kind = "render"
  /\ dom # last.domBefore
  /\ \E l \in Rendered : dom[l] /\ ~InSeq(l, props)

====
